---------------------------- MODULE Spec2Model ----------------------------
(***************************************************************************)
(* A model of the reconstruction pipeline of cobradb:                      *)
(*   dump_model       (src/cobradb/dumping/model_dumping.py)               *)
(*   load_chromosome  (src/cobradb/loading/component_loading.py)           *)
(*                                                                         *)
(* Rows of a query are read one at a time, as the for-loops of the source  *)
(* read them from the cursor; each loop body is one action and the code    *)
(* that follows a loop is the action taken when the cursor is exhausted.   *)
(* Payload columns that are only copied (name, bounds, rule, subsystem,    *)
(* formula, charge) are not carried.                                       *)
(*                                                                         *)
(* Identifiers.  A reaction identifier is the record                       *)
(*   [base |-> b, copies |-> <<n1, ..., nk>>]                               *)
(* standing for the string  b_copy<n1>..._copy<nk>.  A metabolite key is   *)
(* the tuple <<component, "_", compartment>> standing for the string       *)
(* concatenation component + '_' + compartment.                            *)
(***************************************************************************)
EXTENDS Integers, Sequences, FiniteSets, TLC

\* ------------------------------------------------------------------------
\* Bounds of the model
\* ------------------------------------------------------------------------
MaxRows == 3

MaxModelReactions == 3

MaxMatrixRows == 3

MaxFeatures == 7

\* ------------------------------------------------------------------------
\* Value domains of the rows
\* ------------------------------------------------------------------------
None == "<None>"

GeneIds == {"b0001", "b0002"}

OldIds == {"a", "b"}

RId(b, c) == [base |-> b, copies |-> c]

ReactionIds == {RId("PGI", <<>>), RId("PGI", <<1>>)}

CopyNumbers == {1, 2, 3}

ModelReactionIds == 1..MaxModelReactions

ComponentIds == {"glc", None}

CompartmentIds == {"c", "e", None}

Stoichs == {1, 2}

\* ------------------------------------------------------------------------
\* Sequence and dictionary helpers
\* ------------------------------------------------------------------------
Range(s) == {s[i] : i \in DOMAIN s}

\* dict[k].append(v) on a defaultdict(list)
DictAppend(d, k, v) ==
  IF k \in DOMAIN d THEN [d EXCEPT ![k] = Append(@, v)]
  ELSE [x \in DOMAIN d \cup {k} |-> IF x = k THEN <<v>> ELSE d[x]]

EmptyDict == [x \in {} |-> <<>>]

VARIABLES
  pc,                         \* position in dump_model
  rows_read,                  \* number of rows fetched from the cursors
  row,                        \* the loop variables: the row fetched last
  rows_seen,                  \* history: the rows fetched by the aggregation loops
  gene_names,                 \* dump_model: list of gene ids, first-seen order
  old_gene_ids_dict,          \* dump_model: gene id -> list of old ids
  model_genes,                \* model.genes
  reactions_model_reactions,  \* dump_model: list of (ModelReaction, Reaction)
  found_model_reactions,      \* dump_model: set of ModelReaction.id
  old_reaction_ids_dict,      \* dump_model: Reaction.cobra_id -> list of old ids
  result_filtered,            \* dump_model: filter_duplicates(result_dicts)
  model_reactions,            \* model.reactions
  metabolite_names,           \* dump_model: list of (component, compartment)
  old_metabolite_ids_dict,    \* dump_model: metabolite key -> list of old ids
  model_metabolites,          \* model.metabolites
  compartments,               \* dump_model: set of compartment ids
  r_metabolites,              \* reaction id -> r.metabolites
  matrix_read,                \* number of rows fetched from matrix_db
  warnings,                   \* messages passed to logging.warning
  lpc,                        \* position in load_chromosome
  feature_i,                  \* load_chromosome: number of features read
  feature,                    \* load_chromosome: feature.type and the locals
                              \* cobra_id, gene_name, refseq_name, locus_tag
  taxon_id,                   \* genome_db.taxon_id
  cobra_id_warnings,          \* load_chromosome: fallback warnings counted
  duplicate_genes_warnings,   \* load_chromosome: duplicate warnings counted
  genes_db,                   \* the Gene rows of the chromosome, by Gene.id
  synonyms_db,                \* the Synonym rows
  log,                        \* message -> times passed to logging.warn / .error
  fallback_seen               \* history: features that fell back to the name

dump_vars == <<pc, rows_read, row, rows_seen, gene_names, old_gene_ids_dict, model_genes,
               reactions_model_reactions, found_model_reactions,
               old_reaction_ids_dict, result_filtered, model_reactions,
               metabolite_names, old_metabolite_ids_dict, model_metabolites,
               compartments, matrix_read, r_metabolites, warnings>>

load_vars == <<lpc, feature_i, feature, taxon_id, cobra_id_warnings,
               duplicate_genes_warnings, genes_db, synonyms_db, log,
               fallback_seen>>

vars == <<dump_vars, load_vars>>

gene_vars == <<gene_names, old_gene_ids_dict, model_genes>>

reaction_vars == <<reactions_model_reactions, found_model_reactions,
                   old_reaction_ids_dict, result_filtered, model_reactions>>

metabolite_vars == <<metabolite_names, old_metabolite_ids_dict,
                     model_metabolites, compartments>>

matrix_vars == <<matrix_read, r_metabolites, warnings>>

NoRow == [kind |-> "none"]

\* the cursor yields a row: it becomes the value of the loop variables
Fetch(r) ==
  /\ rows_read' = rows_read + 1
  /\ row' = r
  /\ rows_seen' = rows_seen \cup {r}

cursor_vars == <<rows_read, row, rows_seen>>

\* ------------------------------------------------------------------------
\* cobradb.util
\* ------------------------------------------------------------------------
\* '<cobra_id>_copy<copy_number>'
make_reaction_copy_id(cobra_id, copy_number) ==
  [cobra_id EXCEPT !.copies = Append(@, copy_number)]

\* an increment that never counts past _copy1
increment_id_m(id) ==
  IF id.copies # <<>>
  THEN [id EXCEPT !.copies = [@ EXCEPT ![Len(@)] = 1]]
  ELSE [id EXCEPT !.copies = <<1>>]

\* '<id>_copy<N+1>' when id ends in _copy<N>, '<id>_copy1' otherwise
increment_id(id) ==
  IF id.copies # <<>>
  THEN [id EXCEPT !.copies = [@ EXCEPT ![Len(@)] = @ + 1]]
  ELSE [id EXCEPT !.copies = <<1>>]

\* ------------------------------------------------------------------------
\* dump_model: genes
\* ------------------------------------------------------------------------
GeneRow(gene_id, old_id) ==
  /\ pc = "genes"
  /\ Fetch([kind |-> "gene", gene_id |-> gene_id, old_id |-> old_id])
  /\ gene_names' = IF gene_id \notin DOMAIN old_gene_ids_dict
                   THEN Append(gene_names, gene_id)
                   ELSE gene_names
  /\ old_gene_ids_dict' = DictAppend(old_gene_ids_dict, gene_id, old_id)
  /\ UNCHANGED <<pc, model_genes, reaction_vars, metabolite_vars, matrix_vars>>
  /\ UNCHANGED load_vars

GenesEnd ==
  /\ pc = "genes"
  /\ model_genes' = [i \in DOMAIN gene_names |->
                       [id |-> gene_names[i],
                        original_cobra_ids |-> old_gene_ids_dict[gene_names[i]]]]
  /\ pc' = "reactions"
  /\ UNCHANGED <<cursor_vars, gene_names, old_gene_ids_dict, reaction_vars,
                 metabolite_vars, matrix_vars>>
  /\ UNCHANGED load_vars

\* ------------------------------------------------------------------------
\* dump_model: reactions
\* ------------------------------------------------------------------------
\* A row of reactions_db is (model_reaction, reaction, old_id).  The columns
\* of one ModelReaction (its Reaction and its copy number) are the same in
\* every row that carries it.
ConsistentRow(mr_id, cobra_id, copy_number) ==
  \A i \in DOMAIN reactions_model_reactions :
     reactions_model_reactions[i].id = mr_id =>
        /\ reactions_model_reactions[i].cobra_id = cobra_id
        /\ reactions_model_reactions[i].copy_number = copy_number

ReactionRow(mr_id, cobra_id, copy_number, old_id) ==
  /\ pc = "reactions"
  /\ Fetch([kind |-> "reaction", model_reaction |-> mr_id,
            cobra_id |-> cobra_id, copy_number |-> copy_number,
            old_id |-> old_id])
  /\ IF mr_id \notin found_model_reactions
     THEN /\ reactions_model_reactions' =
                Append(reactions_model_reactions,
                       [id |-> mr_id, cobra_id |-> cobra_id,
                        copy_number |-> copy_number])
          /\ found_model_reactions' = found_model_reactions \cup {mr_id}
     ELSE UNCHANGED <<reactions_model_reactions, found_model_reactions>>
  /\ old_reaction_ids_dict' = DictAppend(old_reaction_ids_dict, cobra_id, old_id)
  /\ UNCHANGED <<pc, result_filtered, model_reactions, gene_vars,
                 metabolite_vars, matrix_vars>>
  /\ UNCHANGED load_vars

\* "make dictionaries and cast results"
ResultDicts(rmr, old_ids) ==
  [i \in DOMAIN rmr |->
     [cobra_id |-> rmr[i].cobra_id,
      original_cobra_ids |-> old_ids[rmr[i].cobra_id],
      copy_number |-> rmr[i].copy_number]]

\* tups_by_cobra_id[k]: the (indices of the) dicts whose cobra_id is k,
\* in list order
RECURSIVE GroupOf(_, _, _)
GroupOf(result_dicts, k, n) ==
  IF n = 0 THEN <<>>
  ELSE IF result_dicts[n].cobra_id = k
       THEN Append(GroupOf(result_dicts, k, n - 1), n)
       ELSE GroupOf(result_dicts, k, n - 1)

TupsByCobraId(result_dicts) ==
  [k \in {result_dicts[i].cobra_id : i \in DOMAIN result_dicts} |->
     GroupOf(result_dicts, k, Len(result_dicts))]

\* a resolver that takes a group for duplicated only from three instances on
Duplicates_m(tups_by_cobra_id) ==
  {k \in DOMAIN tups_by_cobra_id : Len(tups_by_cobra_id[k]) > 2}

\* "duplicates have multiple ModelReactions"
Duplicates(tups_by_cobra_id) ==
  {k \in DOMAIN tups_by_cobra_id : Len(tups_by_cobra_id[k]) > 1}

\* the identifier written into a dict of a duplicated group
CopyId(cobra_id, d) == make_reaction_copy_id(cobra_id, d.copy_number)

filter_duplicates(result_dicts) ==
  LET tups_by_cobra_id == TupsByCobraId(result_dicts)
      duplicates == Duplicates(tups_by_cobra_id)
  IN  [i \in DOMAIN result_dicts |->
         IF \E k \in duplicates : i \in Range(tups_by_cobra_id[k])
         THEN LET k == CHOOSE k \in duplicates :
                            i \in Range(tups_by_cobra_id[k])
              IN  [result_dicts[i] EXCEPT !.cobra_id = CopyId(k, result_dicts[i])]
         ELSE result_dicts[i]]

DistinctIds(list) ==
  \A i, j \in DOMAIN list : i # j => list[i].cobra_id # list[j].cobra_id

\* filter_duplicates, the Reaction objects and model.add_reactions.  What
\* add_reactions does with a list that holds an identifier twice is decided
\* inside cobra; the model stops there, at "duplicate_ids".
ReactionsEnd ==
  /\ pc = "reactions"
  /\ result_filtered' =
        filter_duplicates(ResultDicts(reactions_model_reactions,
                                      old_reaction_ids_dict))
  /\ IF DistinctIds(result_filtered')
     THEN /\ model_reactions' =
                [i \in DOMAIN result_filtered' |->
                   [id |-> result_filtered'[i].cobra_id,
                    original_cobra_ids |->
                       result_filtered'[i].original_cobra_ids]]
          /\ r_metabolites' =
                [id \in {result_filtered'[i].cobra_id :
                            i \in DOMAIN result_filtered'} |-> {}]
          /\ pc' = "metabolites"
     ELSE /\ pc' = "duplicate_ids"
          /\ UNCHANGED <<model_reactions, r_metabolites>>
  /\ UNCHANGED <<cursor_vars, reactions_model_reactions,
                 found_model_reactions, old_reaction_ids_dict, gene_vars,
                 metabolite_vars, matrix_read, warnings>>
  /\ UNCHANGED load_vars

\* ------------------------------------------------------------------------
\* dump_model: metabolites
\* ------------------------------------------------------------------------
\* component_id + '_' + compartment_id
MetKey(component_id, compartment_id) == <<component_id, "_", compartment_id>>

\* str + None and None + str raise TypeError
MetaboliteRow(metabolite_id, compartment_id, old_id) ==
  /\ pc = "metabolites"
  /\ Fetch([kind |-> "metabolite", metabolite_id |-> metabolite_id,
            compartment_id |-> compartment_id, old_id |-> old_id])
  /\ IF metabolite_id = None \/ compartment_id = None
     THEN /\ pc' = "TypeError"
          /\ UNCHANGED <<metabolite_names, old_metabolite_ids_dict>>
     ELSE /\ metabolite_names' =
                IF MetKey(metabolite_id, compartment_id)
                      \notin DOMAIN old_metabolite_ids_dict
                THEN Append(metabolite_names,
                            [component_id |-> metabolite_id,
                             compartment_id |-> compartment_id])
                ELSE metabolite_names
          /\ old_metabolite_ids_dict' =
                DictAppend(old_metabolite_ids_dict,
                           MetKey(metabolite_id, compartment_id), old_id)
          /\ UNCHANGED pc
  /\ UNCHANGED <<model_metabolites, compartments, gene_vars, reaction_vars,
                 matrix_vars>>
  /\ UNCHANGED load_vars

\* the names that pass "component_id is not None and compartment_id is not None"
KeptNames(names) ==
  SelectSeq(names, LAMBDA n : n.component_id # None /\ n.compartment_id # None)

MetabolitesEnd ==
  /\ pc = "metabolites"
  /\ LET kept == KeptNames(metabolite_names)
     IN  /\ model_metabolites' =
               [i \in DOMAIN kept |->
                  [id |-> MetKey(kept[i].component_id, kept[i].compartment_id),
                   compartment |-> kept[i].compartment_id,
                   original_cobra_ids |->
                      old_metabolite_ids_dict[MetKey(kept[i].component_id,
                                                     kept[i].compartment_id)]]]
         /\ compartments' = {kept[i].compartment_id : i \in DOMAIN kept}
  /\ pc' = "matrix"
  /\ UNCHANGED <<cursor_vars, metabolite_names, old_metabolite_ids_dict,
                 gene_vars, reaction_vars, matrix_vars>>
  /\ UNCHANGED load_vars

\* ------------------------------------------------------------------------
\* dump_model: reaction matrix
\* ------------------------------------------------------------------------
ReactionIdsOf(reactions) == {reactions[i].id : i \in DOMAIN reactions}

MetaboliteIdsOf(metabolites) == {metabolites[i].id : i \in DOMAIN metabolites}

\* "m in r.metabolites"
HasMetabolite(mets, m) == \E e \in mets : e.met = m

\* an insert without the "m not in r.metabolites" guard
AddIfAbsent_m(mets, m, stoich) == mets \cup {[met |-> m, coef |-> stoich]}

\* "if m not in r.metabolites: r.add_metabolites({m: float(stoich)})"
AddIfAbsent(mets, m, stoich) ==
  IF ~HasMetabolite(mets, m)
  THEN mets \cup {[met |-> m, coef |-> stoich]}
  ELSE mets

NotFoundWarning(component_id, compartment_id, reaction_id) ==
  [msg |-> "Metabolite not found", component_id |-> component_id,
   compartment_id |-> compartment_id, reaction_id |-> reaction_id]

\* the loop variables of a matrix row; reaction_id is the one the probing
\* loop overwrites, fetched_reaction_id keeps the value the cursor gave
MatrixRowVars(stoich, reaction_id, component_id, compartment_id) ==
  [kind |-> "matrix", stoich |-> stoich, reaction_id |-> reaction_id,
   component_id |-> component_id, compartment_id |-> compartment_id,
   fetched_reaction_id |-> reaction_id]

\* a linker whose missing-metabolite branch lacks the "continue"
MatrixRow_m(stoich, reaction_id, component_id, compartment_id) ==
  /\ pc = "matrix"
  /\ matrix_read' = matrix_read + 1
  /\ row' = MatrixRowVars(stoich, reaction_id, component_id, compartment_id)
  /\ LET m == MetKey(component_id, compartment_id)
     IN  /\ warnings' =
               IF m \notin MetaboliteIdsOf(model_metabolites)
               THEN Append(warnings,
                      NotFoundWarning(component_id, compartment_id, reaction_id))
               ELSE warnings
         /\ IF reaction_id \in ReactionIdsOf(model_reactions)
            THEN /\ r_metabolites' =
                       [r_metabolites EXCEPT ![reaction_id] =
                           AddIfAbsent(@, m, stoich)]
                 /\ UNCHANGED pc
            ELSE /\ pc' = "probe"
                 /\ UNCHANGED r_metabolites
  /\ UNCHANGED <<rows_read, rows_seen, gene_vars, reaction_vars,
                 metabolite_vars>>
  /\ UNCHANGED load_vars

\* one row of matrix_db, up to the entry of the "while True" loop
MatrixRow(stoich, reaction_id, component_id, compartment_id) ==
  /\ pc = "matrix"
  /\ matrix_read' = matrix_read + 1
  /\ row' = MatrixRowVars(stoich, reaction_id, component_id, compartment_id)
  /\ LET m == MetKey(component_id, compartment_id)
     IN  IF m \notin MetaboliteIdsOf(model_metabolites)
         THEN /\ warnings' = Append(warnings,
                     NotFoundWarning(component_id, compartment_id, reaction_id))
              /\ UNCHANGED <<pc, r_metabolites>>
         ELSE IF reaction_id \in ReactionIdsOf(model_reactions)
         THEN /\ r_metabolites' =
                    [r_metabolites EXCEPT ![reaction_id] =
                        AddIfAbsent(@, m, stoich)]
              /\ UNCHANGED <<pc, warnings>>
         ELSE /\ pc' = "probe"
              /\ UNCHANGED <<r_metabolites, warnings>>
  /\ UNCHANGED <<rows_read, rows_seen, gene_vars, reaction_vars,
                 metabolite_vars>>
  /\ UNCHANGED load_vars

\* a probing loop that leaves at the first reaction it finds
Probe_m ==
  /\ pc = "probe"
  /\ row' = [row EXCEPT !.reaction_id = increment_id(row.reaction_id)]
  /\ IF row'.reaction_id \in ReactionIdsOf(model_reactions)
     THEN /\ r_metabolites' =
                [r_metabolites EXCEPT ![row'.reaction_id] =
                    AddIfAbsent(@, MetKey(row.component_id, row.compartment_id),
                                row.stoich)]
          /\ pc' = "matrix"
     ELSE /\ pc' = "matrix"
          /\ UNCHANGED r_metabolites
  /\ UNCHANGED <<rows_read, rows_seen, matrix_read, warnings, gene_vars,
                 reaction_vars, metabolite_vars>>
  /\ UNCHANGED load_vars

\* one iteration of "while True": increment the id, add to the reaction of
\* that id and go round again, or leave the loop on KeyError
Probe ==
  /\ pc = "probe"
  /\ row' = [row EXCEPT !.reaction_id = increment_id(row.reaction_id)]
  /\ IF row'.reaction_id \in ReactionIdsOf(model_reactions)
     THEN /\ r_metabolites' =
                [r_metabolites EXCEPT ![row'.reaction_id] =
                    AddIfAbsent(@, MetKey(row.component_id, row.compartment_id),
                                row.stoich)]
          /\ UNCHANGED pc
     ELSE /\ pc' = "matrix"
          /\ UNCHANGED r_metabolites
  /\ UNCHANGED <<rows_read, rows_seen, matrix_read, warnings, gene_vars,
                 reaction_vars, metabolite_vars>>
  /\ UNCHANGED load_vars

MatrixEnd ==
  /\ pc = "matrix"
  /\ pc' = "done"
  /\ UNCHANGED <<cursor_vars, gene_vars, reaction_vars, metabolite_vars,
                 matrix_vars>>
  /\ UNCHANGED load_vars

\* ------------------------------------------------------------------------
\* load_chromosome
\* ------------------------------------------------------------------------
\* A string is the sequence of its tokens; " " is white space, "-" a
\* character outside \w.  A qualifier value that holds a list (a ref with
\* ';' or ':' separators) is the sequence of its parts.  None is the empty
\* sequence: nonempty_str never returns ''.
NoValue == <<>>

warning_num == 5

RECURSIVE LStrip(_)
LStrip(s) == IF s # <<>> /\ Head(s) = " " THEN LStrip(Tail(s)) ELSE s

RECURSIVE RStrip(_)
RStrip(s) ==
  IF s # <<>> /\ s[Len(s)] = " " THEN RStrip(SubSeq(s, 1, Len(s) - 1)) ELSE s

\* s.strip()
Strip(s) == RStrip(LStrip(s))

\* nonempty_str: None if s.strip() == '' else s.strip()
nonempty_str(s) == Strip(s)

\* _get_qual(feat, name, get_first=True)
GetQualFirst(feat, name) ==
  IF name \notin DOMAIN feat.qualifiers THEN NoValue
  ELSE nonempty_str(feat.qualifiers[name][1])

\* _get_qual(feat, name)
GetQual(feat, name) ==
  IF name \notin DOMAIN feat.qualifiers THEN <<>>
  ELSE SelectSeq([k \in DOMAIN feat.qualifiers[name] |->
                    nonempty_str(feat.qualifiers[name][k])],
                 LAMBDA y : y # NoValue)

\* cobradb.util.scrub_gene_id: every character outside \w becomes '_'
scrub_gene_id(the_id) ==
  [k \in DOMAIN the_id |-> IF the_id[k] \in {"-", " "} THEN "_" ELSE the_id[k]]

\* a counter test that lets the summary line out one warning early
WithinCap_m(count) == count < warning_num

\* "if cobra_id_warnings <= warning_num"
WithinCap(count) == count <= warning_num

\* the value of the loop variables after a feature that is not a CDS: the
\* locals keep what the last CDS gave them
Locals(type, cobra_id, gene_name, refseq_name, locus_tag) ==
  [type |-> type, cobra_id |-> cobra_id, gene_name |-> gene_name,
   refseq_name |-> refseq_name, locus_tag |-> locus_tag]

FallbackWarning(limited) ==
  [level |-> "warn", msg |-> "No locus_tag for gene", limited |-> limited]

DuplicateWarning(limited) ==
  [level |-> "warn", msg |-> "Duplicate genes", limited |-> limited]

NoIdError == [level |-> "error", msg |-> "No locus_tag or gene name"]

LogMessages ==
  {FallbackWarning(b) : b \in BOOLEAN} \cup {DuplicateWarning(b) : b \in BOOLEAN}
     \cup {NoIdError}

\* logging.warn(msg), logging.error(msg)
Logged(lg, m) == [lg EXCEPT ![m] = @ + 1]

\* a query that finds no gene, whatever the chromosome holds
GeneQuery_m(genes, cobra_id) == 0

\* the Gene.id of the gene with this cobra_id on the chromosome, 0 if none
GeneQuery(genes, cobra_id) ==
  IF \E g \in DOMAIN genes : genes[g].cobra_id = cobra_id
  THEN CHOOSE g \in DOMAIN genes :
         /\ genes[g].cobra_id = cobra_id
         /\ \A h \in DOMAIN genes : genes[h].cobra_id = cobra_id => g <= h
  ELSE 0

\* load_gene_synonym: get_or_create of the Synonym row
load_gene_synonym(synonyms, gene_id, synonym, data_source) ==
  synonyms \cup {[ome_id |-> gene_id, synonym |-> synonym,
                  data_source |-> data_source]}

RECURSIVE LoadEach(_, _, _, _)
LoadEach(synonyms, gene_id, values, data_source) ==
  IF values = <<>> THEN synonyms
  ELSE LoadEach(load_gene_synonym(synonyms, gene_id, Head(values), data_source),
                gene_id, Tail(values), data_source)

\* the parts of every ref of a qualifier, stripped, in order
RECURSIVE Parts(_)
Parts(refs) ==
  IF refs = <<>> THEN <<>>
  ELSE [k \in DOMAIN Head(refs) |-> Strip(Head(refs)[k])] \o Parts(Tail(refs))

\* db_xref: a ref of two parts source:id gives the synonym id of that source
RECURSIVE LoadXrefs(_, _, _)
LoadXrefs(synonyms, gene_id, refs) ==
  IF refs = <<>> THEN synonyms
  ELSE LET splitrefs == [k \in DOMAIN Head(refs) |-> Strip(Head(refs)[k])]
       IN  LoadXrefs(IF Len(splitrefs) = 2
                     THEN load_gene_synonym(synonyms, gene_id, splitrefs[2],
                                            splitrefs[1])
                     ELSE synonyms,
                     gene_id, Tail(refs))

\* value.strip() of a value held as its ':'-separated parts
StripParts(value) ==
  [k \in DOMAIN value |->
     IF Len(value) = 1 THEN Strip(value[k])
     ELSE IF k = 1 THEN LStrip(value[k])
     ELSE IF k = Len(value) THEN RStrip(value[k])
     ELSE value[k]]

\* note: a ';'-separated value ORF_ID:<id> gives the synonym <id>
RECURSIVE LoadOrfIds(_, _, _)
LoadOrfIds(synonyms, gene_id, values) ==
  IF values = <<>> THEN synonyms
  ELSE LET sp == StripParts(Head(values))
       IN  LoadOrfIds(IF Len(sp) = 2 /\ sp[1] = <<"ORF_ID">>
                      THEN load_gene_synonym(synonyms, gene_id, sp[2],
                                             <<"refseq_orf_id">>)
                      ELSE synonyms,
                      gene_id, Tail(values))

\* the ';'-separated values of every ref of the note qualifier, in order
RECURSIVE NoteValues(_)
NoteValues(refs) ==
  IF refs = <<>> THEN <<>> ELSE Head(refs) \o NoteValues(Tail(refs))

\* "load the synonyms for the gene"
LoadSynonyms(synonyms, gene_id, feat, locus_tag, refseq_name) ==
  LET s1 == IF locus_tag # NoValue
            THEN load_gene_synonym(synonyms, gene_id, locus_tag,
                                   <<"refseq_locus_tag">>)
            ELSE synonyms
      s2 == IF refseq_name # NoValue
            THEN load_gene_synonym(s1, gene_id, refseq_name, <<"refseq_name">>)
            ELSE s1
      s3 == LoadEach(s2, gene_id, Parts(GetQual(feat, "gene_synonym")),
                     <<"refseq_synonym">>)
      s4 == LoadXrefs(s3, gene_id, GetQual(feat, "db_xref"))
      s5 == LoadEach(s4, gene_id, Parts(GetQual(feat, "old_locus_tag")),
                     <<"refseq_old_locus_tag">>)
  IN  LoadOrfIds(s5, gene_id,
                 IF "note" \in DOMAIN feat.qualifiers
                 THEN NoteValues(feat.qualifiers["note"])
                 ELSE <<>>)

\* the first db_xref of a source feature that names a taxon
RECURSIVE TaxonOf(_)
TaxonOf(refs) ==
  IF refs = <<>> THEN NoValue
  ELSE IF Head(refs)[1] = <<"taxon">> THEN Head(refs)[2]
       ELSE TaxonOf(Tail(refs))

\* the body of "for i, feature in enumerate(gb_file.features)"
LoadFeature(feat) ==
  /\ lpc = "features"
  /\ feature_i' = feature_i + 1
  /\ LET t_locus == GetQualFirst(feat, "locus_tag")
         t_gene == GetQualFirst(feat, "gene")
         locus_tag == t_locus
         refseq_name == t_gene
         fallback == t_gene # NoValue /\ t_locus = NoValue
         cobra_id == IF t_locus # NoValue THEN scrub_gene_id(t_locus)
                     ELSE IF t_gene # NoValue THEN scrub_gene_id(t_gene)
                     ELSE NoValue
         gene_name == IF fallback THEN cobra_id ELSE t_gene
         found == GeneQuery(genes_db, cobra_id)
         gene_id == IF found = 0 THEN Len(genes_db) + 1 ELSE found
     IN  IF taxon_id = NoValue /\ feat.type = "source"
         THEN /\ taxon_id' =
                    IF TaxonOf(GetQual(feat, "db_xref")) # NoValue
                    THEN TaxonOf(GetQual(feat, "db_xref"))
                    ELSE taxon_id
              /\ feature' = [feature EXCEPT !.type = feat.type]
              /\ UNCHANGED <<cobra_id_warnings, duplicate_genes_warnings,
                             genes_db, synonyms_db, log, fallback_seen>>
         ELSE IF feat.type # "CDS"
         THEN /\ feature' = [feature EXCEPT !.type = feat.type]
              /\ UNCHANGED <<taxon_id, cobra_id_warnings,
                             duplicate_genes_warnings, genes_db, synonyms_db,
                             log, fallback_seen>>
         ELSE IF cobra_id = NoValue
         THEN /\ log' = Logged(log, NoIdError)
              /\ feature' = Locals(feat.type, cobra_id, gene_name,
                                   refseq_name, locus_tag)
              /\ UNCHANGED <<taxon_id, cobra_id_warnings,
                             duplicate_genes_warnings, genes_db, synonyms_db,
                             fallback_seen>>
         ELSE LET warn_fallback == fallback /\ WithinCap(cobra_id_warnings)
                  warn_duplicate ==
                     found # 0 /\ WithinCap(duplicate_genes_warnings)
              IN  /\ cobra_id_warnings' =
                        IF warn_fallback THEN cobra_id_warnings + 1
                        ELSE cobra_id_warnings
                  /\ fallback_seen' =
                        IF fallback THEN fallback_seen + 1 ELSE fallback_seen
                  /\ genes_db' =
                        IF found = 0
                        THEN Append(genes_db,
                               [cobra_id |-> cobra_id,
                                locus_tag |-> locus_tag,
                                name |-> gene_name,
                                leftpos |-> feat.location[1],
                                rightpos |-> feat.location[2],
                                strand |-> IF feat.strand = 1 THEN "+"
                                           ELSE IF feat.strand = -1 THEN "-"
                                           ELSE "None"])
                        ELSE genes_db
                  /\ duplicate_genes_warnings' =
                        IF warn_duplicate THEN duplicate_genes_warnings + 1
                        ELSE duplicate_genes_warnings
                  /\ log' =
                        LET l1 == IF warn_fallback
                                  THEN Logged(log, FallbackWarning(
                                          cobra_id_warnings = warning_num))
                                  ELSE log
                        IN  IF warn_duplicate
                            THEN Logged(l1, DuplicateWarning(
                                    duplicate_genes_warnings = warning_num))
                            ELSE l1
                  /\ feature' = Locals(feat.type, cobra_id, gene_name,
                                       refseq_name, locus_tag)
                  /\ synonyms_db' =
                        LoadSynonyms(synonyms_db, gene_id, feat, locus_tag,
                                     refseq_name)
                  /\ UNCHANGED taxon_id
  /\ UNCHANGED <<lpc, dump_vars>>

\* the features are exhausted: session.commit()
LoadEnd ==
  /\ lpc = "features"
  /\ lpc' = "done"
  /\ UNCHANGED <<feature_i, feature, taxon_id, cobra_id_warnings,
                 duplicate_genes_warnings, genes_db, synonyms_db, log,
                 fallback_seen, dump_vars>>

\* ------------------------------------------------------------------------
\* Specifications
\* ------------------------------------------------------------------------
DumpInit ==
  /\ pc = "genes"
  /\ rows_read = 0
  /\ row = NoRow
  /\ rows_seen = {}
  /\ gene_names = <<>>
  /\ old_gene_ids_dict = EmptyDict
  /\ model_genes = <<>>
  /\ reactions_model_reactions = <<>>
  /\ found_model_reactions = {}
  /\ old_reaction_ids_dict = EmptyDict
  /\ result_filtered = <<>>
  /\ model_reactions = <<>>
  /\ metabolite_names = <<>>
  /\ old_metabolite_ids_dict = EmptyDict
  /\ model_metabolites = <<>>
  /\ compartments = {}
  /\ r_metabolites = EmptyDict
  /\ matrix_read = 0
  /\ warnings = <<>>

\* load_chromosome after the chromosome row is made, before the first feature
LoadInit ==
  /\ lpc = "features"
  /\ feature_i = 0
  /\ feature = Locals("none", NoValue, NoValue, NoValue, NoValue)
  /\ taxon_id = NoValue
  /\ cobra_id_warnings = 0
  /\ duplicate_genes_warnings = 0
  /\ genes_db = <<>>
  /\ synonyms_db = {}
  /\ log = [m \in LogMessages |-> 0]
  /\ fallback_seen = 0

Init == DumpInit /\ LoadInit

\* the aggregation, resolution and assembly of genes, reactions and
\* metabolites, over at most MaxRows rows
Next ==
  \/ \E g \in GeneIds, o \in OldIds :
        rows_read < MaxRows /\ GeneRow(g, o)
  \/ GenesEnd
  \/ \E mr \in ModelReactionIds, r \in ReactionIds, c \in CopyNumbers,
        o \in OldIds :
        /\ rows_read < MaxRows
        /\ mr <= Len(reactions_model_reactions) + 1
        /\ ConsistentRow(mr, r, c)
        /\ ReactionRow(mr, r, c, o)
  \/ ReactionsEnd
  \/ \E x \in ComponentIds, y \in CompartmentIds, o \in OldIds :
        rows_read < MaxRows /\ MetaboliteRow(x, y, o)
  \/ MetabolitesEnd

Spec == Init /\ [][Next]_vars

\* the place of an instance in the order in which the linker's runs list them
Rank(cobra_id, copy_number) == Len(cobra_id.copies) * 10 + copy_number

\* the instance can come next in a list that is in that order
InOrder(cobra_id, copy_number) ==
  IF reactions_model_reactions = <<>> THEN TRUE
  ELSE LET last == reactions_model_reactions[Len(reactions_model_reactions)]
       IN  Rank(last.cobra_id, last.copy_number) <= Rank(cobra_id, copy_number)

\* the matrix linker, on a model assembled from at most MaxModelReactions
\* reaction instances, each read in one row, and the metabolite glc_c; the
\* linker does not depend on the order of model.reactions, so the instances
\* are listed in one order only
LinkNext ==
  \/ GenesEnd
  \/ \E mr \in ModelReactionIds, r \in ReactionIds, c \in CopyNumbers :
        /\ mr = Len(reactions_model_reactions) + 1
        /\ InOrder(r, c)
        /\ ReactionRow(mr, r, c, "a")
  \/ ReactionsEnd
  \/ /\ metabolite_names = <<>>
     /\ MetaboliteRow("glc", "c", "a")
  \/ MetabolitesEnd
  \/ \E s \in Stoichs, r \in ReactionIds, y \in CompartmentIds \ {None} :
        matrix_read < MaxMatrixRows /\ MatrixRow(s, r, "glc", y)
  \/ Probe
  \/ MatrixEnd

SpecLink == Init /\ [][LinkNext]_vars

\* dump_model is one thread of control: while a statement of the linker can
\* run, one does; the cursor over matrix_db is finite
SpecLinkFair == SpecLink /\ WF_vars(LinkNext)

\* the features a chromosome file can hold
LocusQuals == {<<>>, <<" ">>, <<"thr", "A">>}

GeneQuals == {<<>>, <<" ", "thr", "-", "A">>, <<"thr", "_", "A">>}

Qualifiers(locus, gene, extra) ==
  LET names == (IF locus = <<>> THEN {} ELSE {"locus_tag"})
               \cup (IF gene = <<>> THEN {} ELSE {"gene"})
               \cup (IF extra
                     THEN {"gene_synonym", "db_xref", "old_locus_tag", "note"}
                     ELSE {})
  IN  [n \in names |->
         IF n = "locus_tag" THEN <<locus>>
         ELSE IF n = "gene" THEN <<gene>>
         ELSE IF n = "gene_synonym" THEN << <<<<"s1">>, <<" ", "s2">>>> >>
         ELSE IF n = "old_locus_tag" THEN << <<<<"ECK0002">>>> >>
         ELSE IF n = "note"
              THEN << << <<<<" ", "ORF_ID">>, <<"o1">>>>, <<<<"text">>>> >> >>
         ELSE << <<<<"GeneID">>, <<"945803">>>>, <<<<"a">>, <<"b">>, <<"c">>>> >>]

Cds(locus, gene, extra) ==
  [type |-> "CDS", qualifiers |-> Qualifiers(locus, gene, extra),
   strand |-> IF gene = <<"thr", "_", "A">> THEN -1 ELSE 1,
   location |-> IF gene = <<"thr", "_", "A">> THEN <<3, 6>> ELSE <<0, 3>>]

CdsFeatures ==
  {Cds(l, g, FALSE) : l \in LocusQuals, g \in GeneQuals}
     \cup {Cds(<<"thr", "A">>, <<"thr", "_", "A">>, TRUE)}

OtherFeatures ==
  {[type |-> "source",
    qualifiers |-> [n \in {"db_xref"} |-> << <<<<"taxon">>, <<"511145">>>> >>],
    strand |-> 1, location |-> <<0, 6>>],
   [type |-> "source", qualifiers |-> [n \in {} |-> <<>>],
    strand |-> 1, location |-> <<0, 6>>],
   [type |-> "gene", qualifiers |-> [n \in {} |-> <<>>],
    strand |-> 1, location |-> <<0, 3>>]}

Features == CdsFeatures \cup OtherFeatures

\* load_chromosome on a file of at most MaxFeatures features
LoadNext ==
  \/ \E feat \in Features : feature_i < MaxFeatures /\ LoadFeature(feat)
  \/ LoadEnd

SpecLoad == Init /\ [][LoadNext]_vars

\* ------------------------------------------------------------------------
\* Properties of the duplicate-reaction resolver
\* ------------------------------------------------------------------------
Resolved == pc \notin {"genes", "reactions"}

InputDicts == ResultDicts(reactions_model_reactions, old_reaction_ids_dict)

PGI == RId("PGI", <<>>)

\* C1: after filter_duplicates has run, the final identifiers of all records
\* are pairwise distinct, for every combination of public identifiers and
\* copy numbers in the input.
C1_FinalIdsDistinct == Resolved => DistinctIds(result_filtered)

\* the number of instances that carry the public identifier of instance i
Sharing(rd, i) ==
  Cardinality({j \in DOMAIN rd : rd[j].cobra_id = rd[i].cobra_id})

Perms(n) == {p \in [1..n -> 1..n] : \A i, j \in 1..n : i # j => p[i] # p[j]}

Permuted(list, p) == [i \in DOMAIN list |-> list[p[i]]]

\* C2: the resolver rewrites exactly the records whose public identifier is
\* shared by two or more instances, each to <identifier>_copy<its own copy
\* number>, whatever the order of the list; a record whose identifier occurs
\* once keeps it; PGI with copy numbers 1 and 2 never leaves two records
\* named PGI.
C2_RewritesExactlyShared ==
  Resolved =>
    LET rd == InputDicts
    IN  /\ DOMAIN result_filtered = DOMAIN rd
        /\ \A i \in DOMAIN rd :
              result_filtered[i].cobra_id =
                 IF Sharing(rd, i) >= 2
                 THEN RId(rd[i].cobra_id.base,
                          rd[i].cobra_id.copies \o <<rd[i].copy_number>>)
                 ELSE rd[i].cobra_id
        /\ \A p \in Perms(Len(rd)) :
              filter_duplicates(Permuted(rd, p)) = Permuted(result_filtered, p)
        /\ (\E i, j \in DOMAIN rd :
               /\ rd[i].cobra_id = PGI /\ rd[i].copy_number = 1
               /\ rd[j].cobra_id = PGI /\ rd[j].copy_number = 2)
            => Cardinality({k \in DOMAIN rd :
                              result_filtered[k].cobra_id = PGI}) < 2

\* a shared identifier with copy numbers 1 and 2 next to a singleton
C2_Witness ==
  /\ Resolved
  /\ \E i, j, k \in DOMAIN result_filtered :
        /\ InputDicts[i].cobra_id = PGI /\ InputDicts[i].copy_number = 1
        /\ InputDicts[j].cobra_id = PGI /\ InputDicts[j].copy_number = 2
        /\ Sharing(InputDicts, k) = 1
        /\ result_filtered[i].cobra_id = RId("PGI", <<1>>)
        /\ result_filtered[j].cobra_id = RId("PGI", <<2>>)
        /\ result_filtered[k].cobra_id = InputDicts[k].cobra_id

\* ------------------------------------------------------------------------
\* Properties of the alias aggregation and of the assembly
\* ------------------------------------------------------------------------
RowsOf(kind) == {r \in rows_seen : r.kind = kind}

NoRepeat(list) == \A i, j \in DOMAIN list : i # j => list[i] # list[j]

GeneAliases(gene_id) ==
  {r.old_id : r \in {x \in RowsOf("gene") : x.gene_id = gene_id}}

ReactionAliases(mr_id) ==
  {r.old_id : r \in {x \in RowsOf("reaction") : x.model_reaction = mr_id}}

MetaboliteAliases(key) ==
  {r.old_id : r \in {x \in RowsOf("metabolite") :
                        MetKey(x.metabolite_id, x.compartment_id) = key}}

\* C6: for each entity kind the aggregation yields exactly one entity per
\* distinct grouping key (gene: public identifier; reaction: public
\* identifier and physical row identity; metabolite: component identifier +
\* compartment identifier), and the aliases recorded for the entity are
\* exactly the set of aliases carried by the rows of that key (the recorded
\* list is compared as a set).
C6_AliasesPerGroupingKey ==
  pc = "matrix" =>
    /\ Len(model_genes) = Cardinality({r.gene_id : r \in RowsOf("gene")})
    /\ \A i \in DOMAIN model_genes :
          Range(model_genes[i].original_cobra_ids)
                = GeneAliases(model_genes[i].id)
    /\ Len(model_reactions)
          = Cardinality({r.model_reaction : r \in RowsOf("reaction")})
    /\ \A i \in DOMAIN model_reactions :
          Range(model_reactions[i].original_cobra_ids)
                = ReactionAliases(reactions_model_reactions[i].id)
    /\ Len(model_metabolites)
          = Cardinality({MetKey(r.metabolite_id, r.compartment_id) :
                           r \in RowsOf("metabolite")})
    /\ \A i \in DOMAIN model_metabolites :
          Range(model_metabolites[i].original_cobra_ids)
                = MetaboliteAliases(model_metabolites[i].id)

NullRow(r) == r.metabolite_id = None \/ r.compartment_id = None

\* C9: a metabolite row whose component or compartment identifier is null
\* is discarded: the reconstruction goes on without failing, no metabolite
\* is made for the row and its compartment is not added; every other row
\* yields one metabolite per distinct (component, compartment) pair.
C9_NullRowDiscarded ==
  LET good == {r \in RowsOf("metabolite") : ~NullRow(r)}
  IN  /\ (\E r \in RowsOf("metabolite") : NullRow(r)) => pc # "TypeError"
      /\ pc = "matrix" =>
            /\ MetaboliteIdsOf(model_metabolites)
                  = {MetKey(r.metabolite_id, r.compartment_id) : r \in good}
            /\ NoRepeat([i \in DOMAIN model_metabolites |->
                            model_metabolites[i].id])
            /\ compartments = {r.compartment_id : r \in good}

\* ------------------------------------------------------------------------
\* Properties of the matrix linker
\* ------------------------------------------------------------------------
InModel(reaction_id) == reaction_id \in ReactionIdsOf(model_reactions)

RowKey(r) == MetKey(r.component_id, r.compartment_id)

Last(s) == s[Len(s)]

Front(s) == SubSeq(s, 1, Len(s) - 1)

\* the identifiers probed so far for the row in the loop variables: from the
\* first increment of the fetched identifier to the current one
Probed(r) ==
  IF r.reaction_id = r.fetched_reaction_id THEN {}
  ELSE LET f == r.fetched_reaction_id
           lo == IF f.copies = <<>> THEN 1 ELSE Last(f.copies) + 1
           prefix == IF f.copies = <<>> THEN <<>> ELSE Front(f.copies)
       IN  {RId(f.base, prefix \o <<n>>) : n \in lo..Last(r.reaction_id.copies)}

C4_MetaboliteAtMostOnce ==
  /\ [](\A id \in DOMAIN r_metabolites :
          \A e1, e2 \in r_metabolites[id] : e1.met = e2.met => e1 = e2)
  /\ [][(pc = "matrix" \/ pc = "probe") =>
          (\A id \in DOMAIN r_metabolites :
              r_metabolites[id] \subseteq r_metabolites'[id])]_vars

\* a probed reaction already held the metabolite of the row, with another
\* coefficient
C4_Witness ==
  /\ pc = "probe"
  /\ row.reaction_id # row.fetched_reaction_id
  /\ InModel(row.reaction_id)
  /\ \E e \in r_metabolites[row.reaction_id] :
        e.met = RowKey(row) /\ e.coef # row.stoich

C7_MissingReactionWarned ==
  [][(pc = "probe" /\ pc' = "matrix" /\ Probed(row) = {})
     => /\ Len(warnings') = Len(warnings) + 1
        /\ r_metabolites' = r_metabolites]_vars

\* ------------------------------------------------------------------------
\* Properties of load_chromosome
\* ------------------------------------------------------------------------
\* the step reads a CDS feature that has a gene name and no locus tag
FallbackStep ==
  /\ feature_i' = feature_i + 1
  /\ feature'.type = "CDS"
  /\ feature'.locus_tag = NoValue
  /\ feature'.refseq_name # NoValue

\* C10: every CDS feature with a gene name and no locus tag gets the scrubbed
\* gene name as its identifier; each of the first five such features logs
\* exactly one fallback warning, the sixth logs one line that says warnings
\* are limited, the seventh and every later one logs none; no other feature
\* logs a fallback warning.
C10_FallbackWarningsCapped ==
  [][/\ FallbackStep =>
          /\ feature'.cobra_id = scrub_gene_id(feature'.refseq_name)
          /\ \E g \in DOMAIN genes_db' :
                /\ genes_db'[g].cobra_id = feature'.cobra_id
                /\ [ome_id |-> g, synonym |-> feature'.refseq_name,
                    data_source |-> <<"refseq_name">>] \in synonyms_db'
          /\ log'[FallbackWarning(FALSE)] - log[FallbackWarning(FALSE)]
                = (IF fallback_seen < 5 THEN 1 ELSE 0)
          /\ log'[FallbackWarning(TRUE)] - log[FallbackWarning(TRUE)]
                = (IF fallback_seen = 5 THEN 1 ELSE 0)
     /\ ~FallbackStep =>
          /\ log'[FallbackWarning(FALSE)] = log[FallbackWarning(FALSE)]
          /\ log'[FallbackWarning(TRUE)] = log[FallbackWarning(TRUE)]]_vars

\* a seventh feature has fallen back to its gene name
C10_Witness ==
  /\ fallback_seen >= 7
  /\ feature.type = "CDS"
  /\ feature.locus_tag = NoValue
  /\ feature.cobra_id = <<"thr", "_", "A">>
  /\ feature.refseq_name = <<"thr", "-", "A">>
  /\ log[FallbackWarning(FALSE)] = 5
  /\ log[FallbackWarning(TRUE)] = 1

\* the step reads a CDS feature whose resolved identifier is already the
\* cobra_id of a gene on the chromosome
DuplicateStep ==
  /\ feature_i' = feature_i + 1
  /\ feature'.type = "CDS"
  /\ feature'.cobra_id # NoValue
  /\ \E g \in DOMAIN genes_db : genes_db[g].cobra_id = feature'.cobra_id

\* C11: the store holds at most one gene per identifier on the chromosome;
\* no step changes or removes a gene that is in the store; a CDS feature whose
\* resolved identifier already exists creates no gene, leaves the coordinates
\* and strand of the existing gene as the first-seen feature set them, and
\* every synonym row the step adds, its locus tag and gene name among them,
\* carries the id of the existing gene.
C11_OneGenePerIdentifier ==
  /\ [](\A g, h \in DOMAIN genes_db :
           genes_db[g].cobra_id = genes_db[h].cobra_id => g = h)
  /\ [][/\ \A g \in DOMAIN genes_db :
              g \in DOMAIN genes_db' /\ genes_db'[g] = genes_db[g]
        /\ DuplicateStep =>
              /\ genes_db' = genes_db
              /\ \A g \in DOMAIN genes_db :
                    genes_db[g].cobra_id = feature'.cobra_id =>
                       /\ \A s \in synonyms_db' \ synonyms_db : s.ome_id = g
                       /\ feature'.locus_tag # NoValue =>
                             [ome_id |-> g, synonym |-> feature'.locus_tag,
                              data_source |-> <<"refseq_locus_tag">>]
                                \in synonyms_db'
                       /\ feature'.refseq_name # NoValue =>
                             [ome_id |-> g, synonym |-> feature'.refseq_name,
                              data_source |-> <<"refseq_name">>]
                                \in synonyms_db']_vars

\* the gene thr_A was made by the feature named " thr-A" at 0..3 on the plus
\* strand; the feature named "thr_A" at 3..6 on the minus strand came later,
\* made no gene and has its name among the synonyms of the first
C11_Witness ==
  /\ Len(genes_db) = 1
  /\ genes_db[1].cobra_id = <<"thr", "_", "A">>
  /\ genes_db[1].leftpos = 0
  /\ genes_db[1].rightpos = 3
  /\ genes_db[1].strand = "+"
  /\ duplicate_genes_warnings >= 1
  /\ feature.type = "CDS"
  /\ feature.refseq_name = <<"thr", "_", "A">>
  /\ [ome_id |-> 1, synonym |-> <<"thr", "-", "A">>,
      data_source |-> <<"refseq_name">>] \in synonyms_db
  /\ [ome_id |-> 1, synonym |-> <<"thr", "_", "A">>,
      data_source |-> <<"refseq_name">>] \in synonyms_db

\* ------------------------------------------------------------------------
\* Termination of the matrix linker
\* ------------------------------------------------------------------------
\* C12: every run of the probing loop ends, the row goes back to the cursor,
\* and the pass over the rows of matrix_db reaches its end; this includes the
\* row whose identifier has no copy in the model at all.
C12_ProbingTerminates ==
  /\ (pc = "probe") ~> (pc = "matrix")
  /\ (pc = "matrix") ~> (pc = "done")

\* the pass has ended, and its last row named a reaction that is not in the
\* model and has no copy there: the loop ran once and left on the first probe
C12_Witness ==
  /\ pc = "done"
  /\ row.kind = "matrix"
  /\ row.fetched_reaction_id \notin ReactionIdsOf(model_reactions)
  /\ increment_id(row.fetched_reaction_id) \notin ReactionIdsOf(model_reactions)
  /\ row.reaction_id = increment_id(row.fetched_reaction_id)
  /\ model_reactions # <<>>

=============================================================================
